---------------------------- MODULE Spec2Model ----------------------------
(***************************************************************************)
(* Connect Four with a Monte Carlo Tree Search opponent                    *)
(* (billwparker/connect-four: mcts.py, main.py, main_streamlit.py).        *)
(*                                                                         *)
(* Boards are Python lists of lists.  They are modelled as objects of a    *)
(* heap (reference -> grid) so that copying (copy.deepcopy) and aliasing   *)
(* (self.board = board) are different things, as they are in the code.     *)
(***************************************************************************)
EXTENDS Integers, Sequences, FiniteSets, TLC

ROWS == 6
COLS == 7

Players == {"R", "Y"}
Cells == {".", "R", "Y"}
None == "None"

RowIdx == 0 .. (ROWS - 1)
ColIdx == 0 .. (COLS - 1)

\* main.py:250  board = [["." for _ in range(COLS)] for _ in range(ROWS)]
EmptyBoard == [row \in RowIdx |-> [col \in ColIdx |-> "."]]

-----------------------------------------------------------------------------
(* The heap of board objects.                                              *)

\* the reference the next allocated object gets: the lowest free one
NewRef(h) ==
    CHOOSE i \in 1 .. (Cardinality(DOMAIN h) + 1) :
        /\ i \notin DOMAIN h
        /\ \A j \in 1 .. (i - 1) : j \in DOMAIN h

\* copy.deepcopy(board): a fresh object holding an equal grid
deepcopy(h, board) ==
    LET new == NewRef(h)
    IN  [heap |-> (new :> h[board]) @@ h, ref |-> new]

\* reference counting: what no name refers to any more is freed
Collect(h, live) == [r \in (DOMAIN h \cap live) |-> h[r]]

-----------------------------------------------------------------------------
(* Board model: mcts.py lines 36-107 (main.py lines 44-109 are the same).  *)

\* list indexing board[row][col]: Python counts a negative index from the end
IndexOk(col) == (0 - COLS) <= col /\ col < COLS
Index(col) == IF col < 0 THEN col + COLS ELSE col

\* mutant: the loop stops one column short, range(COLS - 1)
RECURSIVE valid_moves_short(_, _)
valid_moves_short(grid, col) ==
    IF col >= COLS - 1 THEN << >>
    ELSE (IF grid[0][col] = "." THEN << col >> ELSE << >>)
             \o valid_moves_short(grid, col + 1)

\* mutant: the test of the top cell is left out, every column is returned
RECURSIVE valid_moves_all(_, _)
valid_moves_all(grid, col) ==
    IF col >= COLS THEN << >>
    ELSE << col >> \o valid_moves_all(grid, col + 1)

RECURSIVE valid_moves_from(_, _)
valid_moves_from(grid, col) ==
    IF col >= COLS THEN << >>
    ELSE (IF grid[0][col] = "." THEN << col >> ELSE << >>)
             \o valid_moves_from(grid, col + 1)

get_valid_moves(grid) == valid_moves_from(grid, 0)

\* mutant: the rows are scanned from the top, range(ROWS)
RECURSIVE first_empty_top(_, _, _)
first_empty_top(grid, col, row) ==
    IF row < 0 THEN 0 - 1
    ELSE IF grid[(ROWS - 1) - row][Index(col)] = "." THEN (ROWS - 1) - row
    ELSE first_empty_top(grid, col, row - 1)

\* for row in reversed(range(ROWS)): the first row, from the bottom, whose
\* cell in the column is "."; -1 when the loop ends without a break
RECURSIVE first_empty_from(_, _, _)
first_empty_from(grid, col, row) ==
    IF row < 0 THEN 0 - 1
    ELSE IF grid[row][Index(col)] = "." THEN row
    ELSE first_empty_from(grid, col, row - 1)

\* mutant: the assignment follows the loop instead of being in it, so a
\* full column gets the piece in its top cell
drop_piece_after(grid, col, player) ==
    LET row == first_empty_from(grid, col, ROWS - 1)
    IN  [grid EXCEPT ![IF row < 0 THEN 0 ELSE row][Index(col)] = player]

\* the assignment new_board[row][col] = player of make_move
drop_piece(grid, col, player) ==
    LET row == first_empty_from(grid, col, ROWS - 1)
    IN  IF row < 0 THEN grid
        ELSE [grid EXCEPT ![row][Index(col)] = player]

\* mutant: no copy is made, new_board = board
make_move_in_place(h, board, col, player) ==
    IF ~IndexOk(col)
    THEN [raised |-> "IndexError", heap |-> h, ref |-> 0]
    ELSE [raised |-> None,
          heap |-> [h EXCEPT ![board] = drop_piece(@, col, player)],
          ref |-> board]

make_move(h, board, col, player) ==
    LET c == deepcopy(h, board)
    IN  IF ~IndexOk(col)
        THEN [raised |-> "IndexError", heap |-> h, ref |-> 0]
        ELSE [raised |-> None,
              heap |-> [c.heap EXCEPT ![c.ref] = drop_piece(@, col, player)],
              ref |-> c.ref]

\* mutant: the down-right diagonals miss their last origin column,
\* range(COLS - 4)
check_winner_short(grid, player) ==
    \/ \E row \in 0 .. (ROWS - 1), col \in 0 .. (COLS - 4) :
          \A i \in 0 .. 3 : grid[row][col + i] = player
    \/ \E col \in 0 .. (COLS - 1), row \in 0 .. (ROWS - 4) :
          \A i \in 0 .. 3 : grid[row + i][col] = player
    \/ \E row \in 0 .. (ROWS - 4), col \in 0 .. (COLS - 5) :
          \A i \in 0 .. 3 : grid[row + i][col + i] = player
    \/ \E row \in 3 .. (ROWS - 1), col \in 0 .. (COLS - 4) :
          \A i \in 0 .. 3 : grid[row - i][col + i] = player

\* mutant: the rows miss their last origin column, range(COLS - 4)
check_winner_lopsided(grid, player) ==
    \/ \E row \in 0 .. (ROWS - 1), col \in 0 .. (COLS - 5) :
          \A i \in 0 .. 3 : grid[row][col + i] = player
    \/ \E col \in 0 .. (COLS - 1), row \in 0 .. (ROWS - 4) :
          \A i \in 0 .. 3 : grid[row + i][col] = player
    \/ \E row \in 0 .. (ROWS - 4), col \in 0 .. (COLS - 4) :
          \A i \in 0 .. 3 : grid[row + i][col + i] = player
    \/ \E row \in 3 .. (ROWS - 1), col \in 0 .. (COLS - 4) :
          \A i \in 0 .. 3 : grid[row - i][col + i] = player

check_winner(grid, player) ==
    \/ \E row \in 0 .. (ROWS - 1), col \in 0 .. (COLS - 4) :
          /\ grid[row][col] = player
          /\ grid[row][col + 1] = player
          /\ grid[row][col + 2] = player
          /\ grid[row][col + 3] = player
    \/ \E col \in 0 .. (COLS - 1), row \in 0 .. (ROWS - 4) :
          /\ grid[row][col] = player
          /\ grid[row + 1][col] = player
          /\ grid[row + 2][col] = player
          /\ grid[row + 3][col] = player
    \/ \E row \in 0 .. (ROWS - 4), col \in 0 .. (COLS - 4) :
          /\ grid[row][col] = player
          /\ grid[row + 1][col + 1] = player
          /\ grid[row + 2][col + 2] = player
          /\ grid[row + 3][col + 3] = player
    \/ \E row \in 3 .. (ROWS - 1), col \in 0 .. (COLS - 4) :
          /\ grid[row][col] = player
          /\ grid[row - 1][col + 1] = player
          /\ grid[row - 2][col + 2] = player
          /\ grid[row - 3][col + 3] = player

get_next_player(current_player) == IF current_player = "Y" THEN "R" ELSE "Y"

is_board_full(grid) == \A col \in 0 .. (COLS - 1) : grid[0][col] # "."

-----------------------------------------------------------------------------
(* Tactical check: mcts.py lines 209-227 (main.py lines 215-233 are the    *)
(* same).  A column is an integer; NoCol stands for Python's None where a  *)
(* column is expected.                                                     *)

NoCol == 0 - 1

\* mutant: the loop runs over the columns from the right
RECURSIVE first_win_reversed(_, _, _, _, _)
first_win_reversed(h, board, moves, i, player) ==
    IF i > Len(moves) THEN NoCol
    ELSE LET col == moves[Len(moves) + 1 - i]
             temp_board == make_move(h, board, col, player)
         IN  IF check_winner(temp_board.heap[temp_board.ref], player)
             THEN col
             ELSE first_win_reversed(h, board, moves, i + 1, player)

\* for col in get_valid_moves(board): temp_board = make_move(board, col,
\* player); if check_winner(temp_board, player): return col  -- from the
\* i-th move on; NoCol when the loop ends
RECURSIVE first_win(_, _, _, _, _)
first_win(h, board, moves, i, player) ==
    IF i > Len(moves) THEN NoCol
    ELSE LET temp_board == make_move(h, board, moves[i], player)
         IN  IF check_winner(temp_board.heap[temp_board.ref], player)
             THEN moves[i]
             ELSE first_win(h, board, moves, i + 1, player)

\* mutant: the opponent's win is looked for first
block_before_win(h, board, current_player) ==
    LET moves == get_valid_moves(h[board])
        block == first_win(h, board, moves, 1, get_next_player(current_player))
    IN  IF block # NoCol THEN block
        ELSE first_win(h, board, moves, 1, current_player)

find_immediate_win_or_block(h, board, current_player) ==
    LET moves == get_valid_moves(h[board])
        win == first_win(h, board, moves, 1, current_player)
    IN  IF win # NoCol THEN win
        ELSE first_win(h, board, moves, 1, get_next_player(current_player))

-----------------------------------------------------------------------------
VARIABLES
    heap,            \* the board objects: reference -> grid
    script,          \* the recorded game the turn loop replays
    board,           \* the turn loop's board (a reference)
    turn,            \* the turn loop's current_player
    ply,             \* pieces placed on board
    free,            \* of these, the moves that left the recorded game
    last,            \* the last move applied to board
    call,            \* the last direct call of make_move and what it gave
    impl,            \* which file's mcts runs: "mcts" (mcts.py) or "main" (main.py)
    root_board,      \* mcts: the argument root_board (a reference)
    current_player,  \* mcts: the argument current_player
    simulations,     \* mcts: the argument simulations
    tree,            \* mcts: the MCTSNode objects, root first
    move_of,         \* for each node, the column expand_node popped for it
    pc,              \* mcts: where the call stands
    node,            \* mcts: the local node (an index into tree)
    sim_board,       \* simulate_game: the local sim_board (a reference)
    sim_player,      \* simulate_game: the local sim_player
    rollout,         \* what the running or last simulate_game did
    winner,          \* mcts: the local winner
    iterations,      \* completed passes of the while loop of mcts
    result,          \* what mcts returned or raised
    before,          \* the tree as the last backpropagate call found it
    tactic,          \* the last direct call of find_immediate_win_or_block
    ai,              \* the running or last call of ai_move
    ui,              \* the turn loop that runs: "console", "web" or "none"
    human_player,    \* turn loop: human_player
    loop_pc,         \* turn loop: where it stands
    valid_moves,     \* turn loop: the local valid_moves
    said,            \* turn loop: what it last told the user
    typed,           \* the lines of the recorded input read so far
    rng              \* the random generator, when its draws are followed

board_vars == << script, board, turn, ply, free, last, call >>
search_vars == << impl, root_board, current_player, simulations, tree, move_of,
                  pc, node, sim_board, sim_player, rollout, winner, iterations,
                  result, before >>
policy_vars == << tactic, ai >>
loop_vars == << ui, human_player, loop_pc, valid_moves, said, typed >>
more_vars == << policy_vars, loop_vars, rng >>
vars == << heap, board_vars, search_vars, more_vars >>

-----------------------------------------------------------------------------
(* Recorded games: columns played alternately from the empty board, Red    *)
(* first, until the board is full.  The positions of LineGames hold a four *)
(* for each player on every line of the grid; in EndGames nobody ever has  *)
(* a four, so the turn loop plays them to the last cell.                   *)

LineGames ==
    << << 1, 3, 2, 6, 2, 5, 6, 6, 0, 3, 0, 6, 0, 6, 1, 6, 0, 1, 0, 3, 0, 4, 3, 2, 4, 4, 2, 5, 3, 5, 3, 4, 1, 4, 2, 4, 2, 5, 1, 5, 1, 5 >>,
       << 4, 3, 5, 3, 6, 1, 6, 4, 5, 6, 4, 0, 3, 2, 3, 1, 3, 3, 1, 0, 5, 0, 1, 2, 5, 1, 2, 1, 5, 0, 5, 6, 4, 6, 2, 0, 4, 0, 2, 2, 4, 6 >>,
       << 5, 1, 6, 4, 4, 1, 4, 3, 0, 0, 5, 4, 1, 5, 5, 4, 5, 1, 1, 4, 6, 1, 3, 0, 3, 3, 0, 2, 6, 3, 0, 5, 0, 3, 2, 2, 2, 2, 6, 2, 6, 6 >>,
       << 3, 6, 5, 1, 2, 5, 3, 3, 2, 5, 5, 1, 6, 1, 3, 5, 4, 2, 0, 2, 6, 2, 6, 6, 6, 1, 2, 1, 4, 3, 5, 0, 3, 0, 4, 1, 4, 0, 4, 0, 4, 0 >>,
       << 2, 6, 3, 6, 2, 3, 2, 6, 5, 6, 1, 5, 5, 0, 2, 3, 1, 0, 4, 3, 1, 0, 0, 3, 3, 6, 1, 4, 1, 4, 1, 0, 0, 4, 4, 2, 2, 6, 4, 5, 5, 5 >>,
       << 1, 2, 1, 5, 2, 3, 1, 5, 5, 0, 3, 6, 3, 5, 3, 5, 2, 5, 3, 3, 0, 6, 2, 6, 2, 1, 2, 4, 4, 1, 1, 6, 4, 6, 0, 0, 0, 6, 0, 4, 4, 4 >>,
       << 1, 4, 4, 4, 0, 5, 5, 2, 0, 0, 3, 3, 3, 3, 0, 2, 6, 5, 6, 0, 0, 4, 3, 2, 4, 5, 1, 3, 6, 2, 1, 2, 5, 1, 4, 1, 6, 1, 6, 5, 6, 2 >>,
       << 1, 6, 0, 6, 3, 6, 6, 3, 1, 0, 2, 4, 2, 1, 6, 1, 6, 4, 3, 1, 5, 5, 5, 1, 2, 4, 4, 4, 3, 5, 3, 0, 2, 0, 5, 2, 2, 4, 0, 0, 5, 3 >>,
       << 0, 3, 1, 0, 5, 1, 5, 1, 4, 0, 6, 0, 1, 4, 1, 2, 4, 1, 3, 5, 3, 2, 3, 5, 3, 6, 3, 6, 4, 6, 2, 2, 0, 0, 6, 5, 2, 2, 6, 5, 4, 4 >>,
       << 6, 0, 0, 4, 1, 1, 2, 6, 2, 4, 2, 4, 5, 2, 0, 3, 1, 2, 3, 3, 0, 3, 6, 3, 6, 3, 0, 1, 0, 1, 5, 5, 1, 4, 2, 4, 5, 6, 6, 5, 4, 5 >>,
       << 6, 1, 5, 1, 3, 0, 1, 1, 4, 1, 6, 3, 1, 3, 5, 3, 5, 5, 5, 5, 4, 4, 2, 4, 6, 2, 4, 2, 3, 2, 0, 2, 3, 0, 4, 0, 6, 2, 0, 0, 6, 6 >>,
       << 0, 5, 1, 5, 6, 0, 4, 4, 5, 3, 6, 5, 6, 4, 0, 4, 4, 3, 1, 3, 6, 1, 2, 4, 6, 0, 6, 5, 5, 3, 0, 3, 3, 2, 1, 0, 2, 2, 1, 2, 2, 1 >>,
       << 3, 2, 3, 6, 3, 0, 3, 5, 5, 6, 3, 4, 3, 2, 2, 0, 6, 0, 5, 6, 0, 1, 0, 5, 5, 0, 1, 1, 5, 1, 4, 6, 1, 1, 6, 2, 4, 4, 2, 2, 4, 4 >> >>

EndGames ==
    << << 2, 3, 2, 3, 5, 2, 0, 0, 4, 3, 4, 0, 4, 5, 6, 5, 0, 1, 0, 2, 2, 1, 5, 5, 1, 5, 0, 2, 6, 1, 3, 4, 3, 3, 6, 4, 4, 6, 6, 1, 6, 1 >>,
       << 2, 4, 1, 1, 2, 0, 0, 6, 2, 4, 5, 0, 4, 2, 4, 2, 0, 3, 3, 6, 6, 3, 6, 1, 3, 0, 0, 2, 4, 5, 5, 5, 3, 5, 3, 6, 6, 5, 1, 4, 1, 1 >>,
       << 0, 0, 3, 0, 4, 2, 1, 1, 3, 4, 4, 2, 5, 6, 4, 3, 5, 5, 1, 4, 4, 3, 6, 3, 0, 1, 3, 0, 2, 6, 6, 1, 5, 1, 2, 6, 2, 0, 6, 2, 5, 5 >> >>

\* The bounds of the model.
MaxFree == 1

Grid(ref) == heap[ref]

NoMove == [col |-> 0 - 1, player |-> None, before |-> EmptyBoard, won |-> FALSE]
NoCall == [col |-> 0, player |-> None, raised |-> None, ret |-> 0]
NoTactic == [player |-> None, col |-> NoCol]

\* random.random() in hundredths; NoDraw when it was not called
NoDraw == 0 - 1

AiIdle ==
    [pc |-> "idle", impl |-> "mcts", args |-> << >>, draw |-> NoDraw,
     consulted |-> FALSE, found |-> NoCol, searched |-> FALSE,
     outcome |-> [kind |-> "running", col |-> NoCol, via |-> "none"]]

\* the columns make_move is called with directly, legal or not
ProbeCols == (0 - (COLS + 1)) .. (COLS + 1)

SearchIdle ==
    /\ impl = "mcts"
    /\ root_board = 0
    /\ current_player = "R"
    /\ simulations = 0
    /\ tree = << >>
    /\ move_of = << >>
    /\ pc = "idle"
    /\ node = 0
    /\ sim_board = 0
    /\ sim_player = None
    /\ rollout = [placed |-> 0, last |-> None, start |-> EmptyBoard, final |-> EmptyBoard]
    /\ winner = None
    /\ iterations = 0
    /\ result = [kind |-> "running", col |-> 0 - 1, via |-> "none"]
    /\ before = [tree |-> << >>, node |-> 0, winner |-> None]

\* no turn loop runs, or the turn loop which is about to ask who goes first
LoopInit(which) ==
    /\ ui = which
    /\ human_player = None
    /\ loop_pc = "start"
    /\ valid_moves = << >>
    /\ said = "none"
    /\ typed = 0

\* main.py lines 250-261: the empty board, Red to move
InitGame ==
    /\ heap = (1 :> EmptyBoard)
    /\ board = 1
    /\ turn = "R"
    /\ ply = 0
    /\ free = 0
    /\ last = NoMove
    /\ call = NoCall
    /\ SearchIdle
    /\ tactic = NoTactic
    /\ ai = AiIdle

\* the draws of the generator are not followed
NoRng ==
    [on |-> FALSE, run |-> 1, tape |-> << >>, pos |-> 0, same |-> TRUE,
     passes |-> 0,
     first |-> [kind |-> "running", col |-> NoCol, via |-> "none"]]

InitTurnLoop == InitGame /\ LoopInit("none") /\ rng = NoRng

Range(seq) == {seq[i] : i \in 1 .. Len(seq)}

InitBoard ==
    /\ script \in Range(LineGames)
    /\ InitTurnLoop

\* board = make_move(board, col, player) and check_winner for that player
\* (main.py lines 282-285 and 298-302); the old board object is dropped
ApplyMove(col, player) ==
    LET r == make_move(Collect(heap, {board}), board, col, player)
    IN  /\ board' = r.ref
        /\ heap' = Collect(r.heap, {r.ref})
        /\ last' = [col |-> col, player |-> player, before |-> Grid(board),
                    won |-> check_winner(r.heap[r.ref], player)]
        /\ ply' = ply + 1
        /\ call' = NoCall
        /\ tactic' = NoTactic
        /\ ai' = AiIdle

\* one turn: the move, and the other player is to move (main.py lines
\* 282-307, mcts.py lines 124-131)
Turn(col) ==
    /\ ApplyMove(col, turn)
    /\ turn' = get_next_player(turn)

\* the next move of the recorded game
Replay ==
    /\ pc = "idle"
    /\ free = 0
    /\ ply < Len(script)
    /\ Turn(script[ply + 1])
    /\ UNCHANGED << script, free >>
    /\ UNCHANGED search_vars
    /\ UNCHANGED loop_vars
    /\ UNCHANGED rng

\* any column of get_valid_moves
Move ==
    /\ pc = "idle"
    /\ free < MaxFree
    /\ LET moves == get_valid_moves(Grid(board))
       IN  \E i \in 1 .. Len(moves) : Turn(moves[i])
    /\ free' = free + 1
    /\ UNCHANGED script
    /\ UNCHANGED search_vars
    /\ UNCHANGED loop_vars
    /\ UNCHANGED rng

\* a direct call make_move(board, col, player) with any column; what the
\* call before it returned is dropped
Probe ==
    /\ pc = "idle"
    /\ \E col \in ProbeCols :
          LET r == make_move(Collect(heap, {board}), board, col, turn)
          IN  /\ heap' = Collect(r.heap, {board, r.ref})
              /\ call' = [col |-> col, player |-> turn, raised |-> r.raised,
                          ret |-> r.ref]
    /\ UNCHANGED << script, board, turn, ply, free, last >>
    /\ UNCHANGED search_vars
    /\ UNCHANGED more_vars

\* a direct call find_immediate_win_or_block(board, player), for either
\* player
Tactic ==
    /\ pc = "idle"
    /\ \E player \in Players :
          tactic' = [player |-> player,
                     col |-> find_immediate_win_or_block(heap, board, player)]
    /\ UNCHANGED << heap, board_vars, ai, loop_vars >>
    /\ UNCHANGED search_vars
    /\ UNCHANGED rng

\* the boards the program builds: recorded games and free moves off them
NextBoard == Replay \/ Move

SpecBoard == InitBoard /\ [][NextBoard]_vars

\* make_move called directly on the positions of the recorded games
NextCalls == Replay \/ Probe

SpecCalls == InitBoard /\ [][NextCalls]_vars

\* find_immediate_win_or_block called directly on these boards
NextTactic == Replay \/ Move \/ Tactic

SpecTactic == InitBoard /\ [][NextTactic]_vars

-----------------------------------------------------------------------------
(* What the claims are stated with.                                        *)

Gravity(grid) ==
    \A col \in ColIdx, row \in RowIdx :
        grid[row][col] # "." =>
            \A below \in (row + 1) .. (ROWS - 1) : grid[below][col] # "."

\* the cells in which two grids differ
Diff(a, b) == {rc \in RowIdx \X ColIdx : a[rc[1]][rc[2]] # b[rc[1]][rc[2]]}

\* the lowest empty cell of a column that has one
LowestEmpty(grid, col) ==
    CHOOSE row \in RowIdx :
        /\ grid[row][col] = "."
        /\ \A other \in RowIdx : grid[other][col] = "." => other <= row

\* grid with player's piece in the lowest empty cell of col, and nothing else changed
Dropped(old, new, col, player) ==
    /\ old[0][col] = "."
    /\ Diff(new, old) = {<< LowestEmpty(old, col), col >>}
    /\ new[LowestEmpty(old, col)][col] = player

Directions == {<< 0, 1 >>, << 1, 0 >>, << 1, 1 >>, << 0 - 1, 1 >>}

\* the four cells from (row, col) in direction d are on the grid and hold player
FourAt(grid, player, row, col, d) ==
    \A i \in 0 .. 3 :
        /\ (row + i * d[1]) \in RowIdx
        /\ (col + i * d[2]) \in ColIdx
        /\ grid[row + i * d[1]][col + i * d[2]] = player

HasFour(grid, player) ==
    \E row \in RowIdx, col \in ColIdx, d \in Directions :
        FourAt(grid, player, row, col, d)

-----------------------------------------------------------------------------
\* C1: gravity.  In every board built from the empty board by make_move on
\* columns of get_valid_moves, no piece has an empty cell below it.
C1_Gravity == \A ref \in DOMAIN heap : Gravity(heap[ref])

\* a free move has landed on top of another piece while a column is still empty
C1_Witness ==
    /\ free = 1
    /\ last.before[ROWS - 1][last.col] # "."
    /\ \E col \in ColIdx : Grid(board)[ROWS - 1][col] = "."

\* C2: get_valid_moves returns exactly the columns whose top cell is empty,
\* in ascending order; make_move on any of them, for either player, raises
\* nothing and returns a board that differs from its input in one cell, the
\* lowest empty cell of the column, which holds the player's piece.  The
\* move the turn loop has just made changed the board in that way too.
C2_ValidMoves ==
    LET grid == Grid(board)
        moves == get_valid_moves(grid)
    IN  /\ Range(moves) = {col \in ColIdx : grid[0][col] = "."}
        /\ \A i \in 1 .. (Len(moves) - 1) : moves[i] < moves[i + 1]
        /\ \A i \in 1 .. Len(moves), player \in Players :
              LET r == make_move(heap, board, moves[i], player)
              IN  /\ r.raised = None
                  /\ Dropped(grid, r.heap[r.ref], moves[i], player)
        /\ last.col >= 0 => Dropped(last.before, grid, last.col, last.player)

\* a free move was made on a board where one column is full and others are not
C2_Witness ==
    /\ free = 1
    /\ Len(get_valid_moves(last.before)) \in 2 .. (COLS - 1)
    /\ \E col \in ColIdx : Grid(board)[0][col] # "."

C4_CheckWinner ==
    /\ \A player \in Players :
          check_winner(Grid(board), player) <=> HasFour(Grid(board), player)
    /\ last.col >= 0 => (last.won <=> HasFour(Grid(board), last.player))

\* the move just made gave the player a first four, down the diagonal that
\* ends in the bottom right corner
C4_Witness ==
    /\ last.col >= 0
    /\ last.won
    /\ ~HasFour(last.before, last.player)
    /\ FourAt(Grid(board), last.player, ROWS - 4, COLS - 4, << 1, 1 >>)

-----------------------------------------------------------------------------
(* Search tree: mcts.py lines 12-33 and 133-169 (main.py lines 9-30 and    *)
(* 137-174).  A node is an index into tree; parent 0 is Python's None.     *)

\* The bounds of the model.
MaxEmpty == 5
MaxIter == 6
SmallCap == 2

\* MCTSNode.__init__
MCTSNode(h, board_ref, player, parent) ==
    [board |-> board_ref,
     current_player |-> player,
     parent |-> parent,
     children |-> << >>,
     wins |-> 0,
     visits |-> 0,
     untried_moves |-> get_valid_moves(h[board_ref])]

\* Floats are kept in units of 1 / Scale.
Scale == 10000
UctC == 14142
Inf == 2000000000

\* math.log(n), n = 1 .. 16
LogTable ==
    << 0, 6931, 10986, 13863, 16094, 17918, 19459, 20794,
       21972, 23026, 23979, 24849, 25649, 26391, 27081, 27726 >>

\* math.sqrt: the integer part, by Newton's iteration from above
RECURSIVE sqrt_from(_, _)
sqrt_from(x, s) ==
    IF s * s <= x THEN s ELSE sqrt_from(x, (s + (x \div s)) \div 2)

sqrt(x) == sqrt_from(x, 2 * Scale)

\* MCTSNode.uct_value
uct_value(t, n) ==
    IF t[n].visits = 0 THEN Inf
    ELSE ((t[n].wins * Scale) \div t[n].visits)
         + ((UctC * sqrt((LogTable[t[t[n].parent].visits] * Scale) \div t[n].visits))
                \div Scale)

\* the loop of best_child from the i-th child on: a child replaces the best
\* one only with a strictly greater value
RECURSIVE best_child_from(_, _, _, _, _)
best_child_from(t, n, i, best, best_uct) ==
    IF i > Len(t[n].children) THEN best
    ELSE LET child == t[n].children[i]
             uct_val == uct_value(t, child)
         IN  IF uct_val > best_uct
             THEN best_child_from(t, n, i + 1, child, uct_val)
             ELSE best_child_from(t, n, i + 1, best, best_uct)

best_child(t, n) == best_child_from(t, n, 1, 0, 0 - 1)

\* expand_node
\* mutant: the child is made and the node itself is returned, return node
expand_node_staying(h, t, n) ==
    LET move == t[n].untried_moves[Len(t[n].untried_moves)]
        r == make_move(h, t[n].board, move, t[n].current_player)
        next_player == get_next_player(t[n].current_player)
        child_node == MCTSNode(r.heap, r.ref, next_player, n)
        popped == [t EXCEPT ![n].untried_moves = SubSeq(@, 1, Len(@) - 1)]
    IN  [heap |-> r.heap,
         tree |-> Append([popped EXCEPT ![n].children = Append(@, Len(t) + 1)],
                         child_node),
         node |-> n,
         move |-> move]

\* mutant: the move is read from the end of untried_moves and left there,
\* untried_moves[-1] for untried_moves.pop()
expand_node_keeping(h, t, n) ==
    LET move == t[n].untried_moves[Len(t[n].untried_moves)]
        r == make_move(h, t[n].board, move, t[n].current_player)
        next_player == get_next_player(t[n].current_player)
        child_node == MCTSNode(r.heap, r.ref, next_player, n)
    IN  [heap |-> r.heap,
         tree |-> Append([t EXCEPT ![n].children = Append(@, Len(t) + 1)],
                         child_node),
         node |-> Len(t) + 1,
         move |-> move]

expand_node(h, t, n) ==
    LET move == t[n].untried_moves[Len(t[n].untried_moves)]
        r == make_move(h, t[n].board, move, t[n].current_player)
        next_player == get_next_player(t[n].current_player)
        child_node == MCTSNode(r.heap, r.ref, next_player, n)
        popped == [t EXCEPT ![n].untried_moves = SubSeq(@, 1, Len(@) - 1)]
    IN  [heap |-> r.heap,
         tree |-> Append([popped EXCEPT ![n].children = Append(@, Len(t) + 1)],
                         child_node),
         node |-> Len(t) + 1,
         move |-> move]

\* mutant: the win goes to the player to move at the node
credited_to_mover(which, node_player, outcome) == outcome = node_player

\* the test of backpropagate: mcts.py line 167, main.py line 172
credited(which, node_player, outcome) ==
    IF which = "mcts"
    THEN outcome # None /\ outcome = get_next_player(node_player)
    ELSE outcome = get_next_player(node_player)

\* mutant: a node whose player's opponent lost the rollout pays for it,
\* wins -= 1
RECURSIVE backpropagate_signed(_, _, _, _)
backpropagate_signed(which, t, n, outcome) ==
    IF n = 0 THEN t
    ELSE backpropagate_signed(which,
                       [t EXCEPT ![n].visits = @ + 1,
                                 ![n].wins = IF credited(which, t[n].current_player, outcome)
                                             THEN @ + 1
                                             ELSE IF outcome = t[n].current_player
                                                  THEN @ - 1 ELSE @],
                       t[n].parent, outcome)

RECURSIVE backpropagate(_, _, _, _)
backpropagate(which, t, n, outcome) ==
    IF n = 0 THEN t
    ELSE backpropagate(which,
                       [t EXCEPT ![n].visits = @ + 1,
                                 ![n].wins = IF credited(which, t[n].current_player, outcome)
                                             THEN @ + 1 ELSE @],
                       t[n].parent, outcome)

\* the selection loop of mcts (mcts.py lines 180-182)
RECURSIVE select(_, _)
select(t, n) ==
    IF t[n].untried_moves = << >> /\ t[n].children # << >>
    THEN select(t, best_child(t, n))
    ELSE n

\* mutant: the last of the greatest
RECURSIVE max_visits_last(_, _, _)
max_visits_last(t, i, best) ==
    IF i > Len(t[1].children) THEN best
    ELSE IF t[t[1].children[i]].visits >= t[best].visits
         THEN max_visits_last(t, i + 1, t[1].children[i])
         ELSE max_visits_last(t, i + 1, best)

\* max(root_node.children, key=lambda c: c.visits): the first of the greatest
RECURSIVE max_visits_from(_, _, _)
max_visits_from(t, i, best) ==
    IF i > Len(t[1].children) THEN best
    ELSE IF t[t[1].children[i]].visits > t[best].visits
         THEN max_visits_from(t, i + 1, t[1].children[i])
         ELSE max_visits_from(t, i + 1, best)

max_visits(t) == max_visits_from(t, 2, t[1].children[1])

\* the objects some name still refers to
Live(t, sim, ret) ==
    {board, root_board, sim, ret} \cup {t[i].board : i \in 1 .. Len(t)}

-----------------------------------------------------------------------------
(* Rollout and search driver: mcts.py lines 109-131 and 171-207 (main.py   *)
(* lines 111-135 and 176-213).                                             *)

InitSearch ==
    /\ script \in Range(EndGames)
    /\ InitTurnLoop

\* the values of simulations mcts is called with: 300 as ai_move passes it
\* (mcts.py line 255), and a small one
AiSimulations == 300
SimulationArgs == {SmallCap, AiSimulations}

\* the largest number of empty cells of a board searched with the draws
\* of the generator followed
MaxSeeded == 3

\* the longest followed sequence of draws
MaxTape == 8

\* a call mcts(board, current_player, simulations, time_limit), up to and
\* with root_node = MCTSNode(root_board, current_player): the root node holds
\* the caller's board object itself
StartMcts(which, player, budget) ==
    /\ impl' = which
    /\ simulations' = budget
    /\ root_board' = board
    /\ current_player' = player
    /\ tree' = << MCTSNode(heap, board, player, 0) >>
    /\ move_of' = << 0 - 1 >>
    /\ pc' = "loop"
    /\ node' = 0
    /\ sim_board' = 0
    /\ sim_player' = None
    /\ rollout' = [placed |-> 0, last |-> None, start |-> EmptyBoard, final |-> EmptyBoard]
    /\ winner' = None
    /\ iterations' = 0
    /\ result' = [kind |-> "running", col |-> 0 - 1, via |-> "none"]
    /\ before' = [tree |-> << >>, node |-> 0, winner |-> None]

\* a direct call of mcts on the board of the turn loop
CallMcts ==
    /\ pc = "idle"
    /\ ROWS * COLS - ply <= (IF rng.on THEN MaxSeeded ELSE MaxEmpty)
    /\ \E which \in {"mcts", "main"}, budget \in SimulationArgs :
          StartMcts(which, turn, budget)
    /\ heap' = Collect(heap, {board})
    /\ call' = NoCall
    /\ UNCHANGED << script, board, turn, ply, free, last >>
    /\ UNCHANGED more_vars

\* the time left test holds: selection.  The clock lets at most MaxIter
\* passes through.
Select ==
    /\ pc = "loop"
    /\ iterations < MaxIter
    /\ node' = select(tree, 1)
    /\ pc' = "expand"
    /\ UNCHANGED << heap, board_vars, impl, root_board, current_player,
                    simulations, tree, move_of, sim_board, sim_player, rollout,
                    winner, iterations, result, before >>
    /\ UNCHANGED more_vars

\* if node.untried_moves: node = expand_node(node)
Expand ==
    /\ pc = "expand"
    /\ IF tree[node].untried_moves # << >>
       THEN LET e == expand_node(heap, tree, node)
            IN  /\ tree' = e.tree
                /\ node' = e.node
                /\ move_of' = Append(move_of, e.move)
                /\ heap' = Collect(e.heap, Live(e.tree, 0, 0))
       ELSE UNCHANGED << tree, node, move_of, heap >>
    /\ pc' = "simulate"
    /\ UNCHANGED << board_vars, impl, root_board, current_player, simulations,
                    sim_board, sim_player, rollout, winner, iterations, result,
                    before >>
    /\ UNCHANGED more_vars

\* simulate_game(node.board, node.current_player), up to the loop
SimStart ==
    /\ pc = "simulate"
    /\ LET c == deepcopy(heap, tree[node].board)
       IN  /\ heap' = c.heap
           /\ sim_board' = c.ref
           /\ rollout' = [placed |-> 0, last |-> None,
                          start |-> Grid(tree[node].board),
                          final |-> c.heap[c.ref]]
    /\ sim_player' = tree[node].current_player
    /\ pc' = "rollout"
    /\ UNCHANGED << board_vars, impl, root_board, current_player, simulations,
                    tree, move_of, node, winner, iterations, result, before >>
    /\ UNCHANGED more_vars

\* the empty cells of a grid
Empties(grid) == Cardinality({rc \in RowIdx \X ColIdx : grid[rc[1]][rc[2]] = "."})

\* col = random.choice(moves): the positions in moves the draw can give.
\* On a board with more than MaxEmpty empty cells only the first one is
\* followed.
RolloutDraws(grid, moves) ==
    IF Empties(grid) <= MaxEmpty THEN 1 .. Len(moves) ELSE {1}

\* mutant: the test is made for the player who did not move
rollout_won_other(grid, player) == check_winner(grid, get_next_player(player))

\* if check_winner(sim_board, sim_player) (mcts.py line 128)
rollout_won(grid, player) == check_winner(grid, player)

\* one pass of the loop of simulate_game with a move to make; placed counts
\* these passes, and no run is followed past ROWS * COLS of them
\* the next draw of a second run, out of n elements, is the one the first
\* run made at the same position of the sequence: the generator was seeded
\* alike before both runs
Replaying(n) ==
    /\ rng.on
    /\ rng.run = 2
    /\ rng.pos < Len(rng.tape)
    /\ rng.tape[rng.pos + 1].n = n

\* the indices random.choice can draw from moves
Draws(grid, moves) ==
    IF Replaying(Len(moves)) THEN {rng.tape[rng.pos + 1].i}
    ELSE RolloutDraws(grid, moves)

\* the generator after it drew the i-th of n elements
Drawn(n, i) ==
    IF ~rng.on THEN rng
    ELSE IF rng.run = 1
         THEN [rng EXCEPT !.tape = Append(@, [n |-> n, i |-> i])]
         ELSE [rng EXCEPT !.pos = @ + 1, !.same = @ /\ Replaying(n)]

SimStep ==
    /\ pc = "rollout"
    /\ rollout.placed < ROWS * COLS
    /\ rng.on => Len(rng.tape) < MaxTape
    /\ LET moves == get_valid_moves(Grid(sim_board))
       IN  \E i \in Draws(Grid(sim_board), moves) :
              \E r \in {make_move(heap, sim_board, moves[i], sim_player)} :
              \E won \in {rollout_won(r.heap[r.ref], sim_player)} :
                  /\ rng' = Drawn(Len(moves), i)
                  /\ rollout' = [rollout EXCEPT !.placed = @ + 1,
                                                !.last = sim_player,
                                                !.final = r.heap[r.ref]]
                  /\ IF won
                     THEN /\ winner' = sim_player
                          /\ pc' = "backprop"
                          /\ sim_board' = 0
                          /\ sim_player' = sim_player
                          /\ heap' = Collect(r.heap, Live(tree, 0, 0))
                     ELSE /\ winner' = winner
                          /\ pc' = "rollout"
                          /\ sim_board' = r.ref
                          /\ sim_player' = get_next_player(sim_player)
                          /\ heap' = Collect(r.heap, Live(tree, r.ref, 0))
    /\ UNCHANGED << board_vars, impl, root_board, current_player, simulations,
                    tree, move_of, node, iterations, result, before >>
    /\ UNCHANGED << policy_vars, loop_vars >>

\* the pass of the loop of simulate_game that finds no move: a draw
SimDraw ==
    /\ pc = "rollout"
    /\ get_valid_moves(Grid(sim_board)) = << >>
    /\ winner' = None
    /\ pc' = "backprop"
    /\ sim_board' = 0
    /\ heap' = Collect(heap, Live(tree, 0, 0))
    /\ UNCHANGED << board_vars, impl, root_board, current_player, simulations,
                    tree, move_of, node, sim_player, rollout, iterations, result,
                    before >>
    /\ UNCHANGED more_vars

\* backpropagate(node, winner), and the pass of the loop of mcts is over
\* mutant: backpropagate(node.parent, winner), the node the rollout started
\* from is not counted
BackpropFromParent ==
    /\ pc = "backprop"
    /\ before' = [tree |-> tree, node |-> node, winner |-> winner]
    /\ tree' = backpropagate(impl, tree, tree[node].parent, winner)
    /\ iterations' = iterations + 1
    /\ pc' = "loop"
    /\ UNCHANGED << heap, board_vars, impl, root_board, current_player,
                    simulations, move_of, node, sim_board, sim_player, rollout,
                    winner, result >>
    /\ UNCHANGED more_vars

Backprop ==
    /\ pc = "backprop"
    /\ before' = [tree |-> tree, node |-> node, winner |-> winner]
    /\ tree' = backpropagate(impl, tree, node, winner)
    /\ iterations' = iterations + 1
    /\ pc' = "loop"
    /\ UNCHANGED << heap, board_vars, impl, root_board, current_player,
                    simulations, move_of, node, sim_board, sim_player, rollout,
                    winner, result >>
    /\ UNCHANGED more_vars

Returned(col, via) == [kind |-> "returned", col |-> col, via |-> via]
Raised(error) == [kind |-> error, col |-> 0 - 1, via |-> "none"]

\* random.choice(get_valid_moves(root_board))
random_choice(via) ==
    LET moves == get_valid_moves(Grid(root_board))
    IN  IF moves = << >> THEN {Raised("IndexError")}
        ELSE {Returned(moves[i], via) : i \in 1 .. Len(moves)}

\* the columns whose board equals that of the chosen child, in the order
\* of the loop (mcts.py lines 202-205)
leading_to(best) ==
    LET moves == get_valid_moves(Grid(root_board))
    IN  {i \in 1 .. Len(moves) :
            LET r == make_move(heap, root_board, moves[i], current_player)
            IN  r.heap[r.ref] = Grid(tree[best].board)}

\* what mcts does when the time is up (mcts.py lines 194-207, main.py 201-213)
mcts_return ==
    IF tree[1].children = << >>
    THEN IF impl = "main" THEN {Raised("ValueError")}
         ELSE random_choice("no_children")
    ELSE LET found == leading_to(max_visits(tree))
             moves == get_valid_moves(Grid(root_board))
         IN  IF found # {}
             THEN {Returned(moves[CHOOSE i \in found : \A j \in found : i <= j],
                            "mapped")}
             ELSE random_choice("unmapped")

\* the time left test fails, at any pass
\* the return value o drew a column with random.choice
drew(o) == o.kind = "returned" /\ o.via # "mapped"

\* the index of a column in the legal columns of the root board
index_of(col) ==
    LET moves == get_valid_moves(Grid(root_board))
    IN  CHOOSE i \in 1 .. Len(moves) : moves[i] = col

Finish ==
    /\ pc = "loop"
    /\ \E o \in mcts_return :
          /\ (drew(o) /\ Replaying(Len(get_valid_moves(Grid(root_board)))))
                => index_of(o.col) = rng.tape[rng.pos + 1].i
          /\ result' = o
          /\ rng' = IF drew(o)
                    THEN Drawn(Len(get_valid_moves(Grid(root_board))),
                               index_of(o.col))
                    ELSE rng
    /\ pc' = "done"
    /\ UNCHANGED << heap, board_vars, impl, root_board, current_player,
                    simulations, tree, move_of, node, sim_board, sim_player,
                    rollout, winner, iterations, before >>
    /\ UNCHANGED << policy_vars, loop_vars >>

NextSearch ==
    \/ Replay
    \/ CallMcts
    \/ Select
    \/ Expand
    \/ SimStart
    \/ SimStep
    \/ SimDraw
    \/ Backprop
    \/ Finish

SpecSearch == InitSearch /\ [][NextSearch]_vars

\* ---- two runs of the search with the generator seeded alike ----

\* the same call of mcts again on the same board, after random.seed with
\* the seed of the first run; the clock is not part of the seed
Rerun ==
    /\ rng.on
    /\ rng.run = 1
    /\ pc = "done"
    /\ StartMcts(impl, current_player, simulations)
    /\ rng' = [rng EXCEPT !.run = 2, !.pos = 0, !.first = result,
                          !.passes = iterations]
    /\ heap' = Collect(heap, {board})
    /\ UNCHANGED << board_vars, policy_vars, loop_vars >>

InitTwice ==
    /\ script \in Range(EndGames)
    /\ InitGame
    /\ LoopInit("none")
    /\ rng = [NoRng EXCEPT !.on = TRUE]

NextTwice ==
    \/ Replay
    \/ CallMcts
    \/ Select
    \/ Expand
    \/ SimStart
    \/ SimStep
    \/ SimDraw
    \/ Backprop
    \/ Finish
    \/ Rerun

SpecTwice == InitTwice /\ [][NextTwice]_vars

\* simulate_game runs without interruption: a pass of its loop that can be
\* made is made
SpecRollout ==
    InitSearch /\ [][NextSearch]_vars /\ WF_vars(SimStep) /\ WF_vars(SimDraw)

-----------------------------------------------------------------------------
(* Decision policy: ai_move of mcts.py (lines 229-255), which takes a      *)
(* difficulty, and ai_move of main.py (lines 235-246), which takes none.   *)
(* args are the arguments that follow board.                               *)

Difficulties == 1 .. 5

\* the values of random.random(), in hundredths: each threshold, the value
\* just below it, and the ends of the range
DrawValues == {0, 4, 5, 9, 10, 14, 15, 19, 20, 99}

\* mutant: the thresholds are in the opposite order
random_branch_reversed(difficulty, random_difficulty) ==
    \/ (difficulty = 1 /\ random_difficulty < 5)
    \/ (difficulty = 2 /\ random_difficulty < 10)
    \/ (difficulty = 3 /\ random_difficulty < 15)
    \/ (difficulty = 4 /\ random_difficulty < 20)

\* the condition of mcts.py lines 238-241
random_branch(difficulty, random_difficulty) ==
    \/ (difficulty = 1 /\ random_difficulty < 20)
    \/ (difficulty = 2 /\ random_difficulty < 15)
    \/ (difficulty = 3 /\ random_difficulty < 10)
    \/ (difficulty = 4 /\ random_difficulty < 5)

\* mutant: the tactical check is made at every difficulty
tactical_always(h, b, player, difficulty) ==
    [consulted |-> TRUE, col |-> find_immediate_win_or_block(h, b, player)]

\* mcts.py lines 247-250: col = find_immediate_win_or_block(...) at
\* difficulty 5, None otherwise
tactical(h, b, player, difficulty) ==
    IF difficulty = 5
    THEN [consulted |-> TRUE, col |-> find_immediate_win_or_block(h, b, player)]
    ELSE [consulted |-> FALSE, col |-> NoCol]

\* random.choice(get_valid_moves(board))
choice_of(grid, via) ==
    LET moves == get_valid_moves(grid)
    IN  IF moves = << >> THEN {Raised("IndexError")}
        ELSE {Returned(moves[i], via) : i \in 1 .. Len(moves)}

Running == [kind |-> "running", col |-> NoCol, via |-> "none"]

AiStep(consulted, found, next, outcome) ==
    [consulted |-> consulted, found |-> found, next |-> next, outcome |-> outcome]

\* ai_move of mcts.py up to its return or its call of mcts: what it can do
\* when random.random() gives r
ai_move_mcts(h, b, args, r) ==
    IF Len(args) # 2
    THEN {AiStep(FALSE, NoCol, "done", Raised("TypeError"))}
    ELSE IF random_branch(args[2], r)
    THEN {AiStep(FALSE, NoCol, "done", o) : o \in choice_of(h[b], "random")}
    ELSE LET t == tactical(h, b, args[1], args[2])
         IN  IF t.col # NoCol
             THEN {AiStep(t.consulted, t.col, "done", Returned(t.col, "tactical"))}
             ELSE {AiStep(t.consulted, NoCol, "search", Running)}

\* ai_move of main.py up to its return or its call of mcts
ai_move_main(h, b, args) ==
    IF Len(args) # 1
    THEN {AiStep(FALSE, NoCol, "done", Raised("TypeError"))}
    ELSE LET col == find_immediate_win_or_block(h, b, args[1])
         IN  IF col # NoCol
             THEN {AiStep(TRUE, col, "done", Returned(col, "tactical"))}
             ELSE {AiStep(TRUE, NoCol, "search", Running)}

\* a call ai_move(board, *args) of the file which, with the budget both
\* files pass to mcts: simulations=300
EnterAiMove(which, args) ==
    \E r \in (IF which = "mcts" /\ Len(args) = 2 THEN DrawValues ELSE {NoDraw}) :
    \E step \in (IF which = "mcts" THEN ai_move_mcts(heap, board, args, r)
                 ELSE ai_move_main(heap, board, args)) :
        /\ ai' = [pc |-> IF step.next = "search" THEN "search" ELSE "done",
                  impl |-> which, args |-> args, draw |-> r,
                  consulted |-> step.consulted, found |-> step.found,
                  searched |-> step.next = "search", outcome |-> step.outcome]
        /\ IF step.next = "search"
           THEN StartMcts(which, args[1], AiSimulations)
           ELSE UNCHANGED search_vars

\* the argument lists ai_move is called with directly
AiArgs(player) == {<< player >>} \cup {<< player, d >> : d \in Difficulties}

\* a direct call of ai_move on the board of the turn loop; as in the turn
\* loops (main.py lines 293-298, main_streamlit.py lines 187-193) the board
\* has a legal column
CallAiMove ==
    /\ pc = "idle"
    /\ ai.pc = "idle"
    /\ ROWS * COLS - ply <= MaxEmpty
    /\ get_valid_moves(Grid(board)) # << >>
    /\ \E which \in {"mcts", "main"}, args \in AiArgs(turn) : EnterAiMove(which, args)
    /\ heap' = Collect(heap, {board})
    /\ call' = NoCall
    /\ UNCHANGED << script, board, turn, ply, free, last, tactic, loop_vars >>
    /\ UNCHANGED rng

\* return mcts(board, current_player, simulations=300, time_limit=1.0)
AiReturn ==
    /\ ai.pc = "search"
    /\ pc = "done"
    /\ ai' = [ai EXCEPT !.pc = "done",
                        !.outcome = [kind |-> result.kind, col |-> result.col,
                                     via |-> "search"]]
    /\ UNCHANGED << heap, board_vars, search_vars, tactic, loop_vars >>
    /\ UNCHANGED rng

NextPolicy ==
    \/ Replay
    \/ CallAiMove
    \/ Select
    \/ Expand
    \/ SimStart
    \/ SimStep
    \/ SimDraw
    \/ Backprop
    \/ Finish
    \/ AiReturn

SpecPolicy == InitSearch /\ [][NextPolicy]_vars

-----------------------------------------------------------------------------
(* Console turn loop: main.py lines 248-312.                               *)

\* what the human types, one recorded line per prompt, as columns 0..6 (the
\* line typed is the column plus 1).  With the first tape a human who moves
\* first can play a game to the last cell, with the second a human who
\* moves second; both then try every column in turn.
HumanTapes ==
    << << 4, 1, 6, 2, 1, 0, 1, 4, 4, 3, 1, 5, 3, 0, 5, 0, 1, 2, 0, 4, 4, 0, 1, 2, 3, 4, 5, 6 >>,
       << 4, 1, 6, 2, 1, 1, 0, 2, 4, 3, 5, 0, 0, 0, 0, 3, 1, 3, 2, 2, 4, 0, 1, 2, 3, 4, 5, 6 >> >>

\* a line of input: a number, or something int() does not take
Line(n) == [numeric |-> TRUE, value |-> n]
NotANumber == [numeric |-> FALSE, value |-> 0]

\* the lines the human can type at a prompt, each with whether it is the
\* next line of the tape: that line, and while free < MaxFree a line off the
\* tape
ConsoleInputs ==
    (IF typed < Len(script) THEN {<< Line(script[typed + 1] + 1), TRUE >>} ELSE {})
        \cup (IF free < MaxFree
              THEN {<< NotANumber, FALSE >>, << Line(0), FALSE >>,
                    << Line(COLS + 1), FALSE >>}
              ELSE {})

ai_player == IF human_player = "R" THEN "Y" ELSE "R"

\* nothing of the search is left once mcts has returned
ResetSearch ==
    /\ impl' = "mcts"
    /\ root_board' = 0
    /\ current_player' = "R"
    /\ simulations' = 0
    /\ tree' = << >>
    /\ move_of' = << >>
    /\ pc' = "idle"
    /\ node' = 0
    /\ sim_board' = 0
    /\ sim_player' = None
    /\ rollout' = [placed |-> 0, last |-> None, start |-> EmptyBoard, final |-> EmptyBoard]
    /\ winner' = None
    /\ iterations' = 0
    /\ result' = [kind |-> "running", col |-> 0 - 1, via |-> "none"]
    /\ before' = [tree |-> << >>, node |-> 0, winner |-> None]

\* main.py lines 253-261
ConsoleStart ==
    /\ ui = "console"
    /\ loop_pc = "start"
    /\ \E first_input \in {"y", "n"} :
          human_player' = IF first_input = "y" THEN "R" ELSE "Y"
    /\ turn' = "R"
    /\ loop_pc' = "turn"
    /\ said' = "board"
    /\ UNCHANGED << heap, script, board, ply, free, last, call >>
    /\ UNCHANGED << search_vars, policy_vars, ui, valid_moves, typed >>
    /\ UNCHANGED rng

\* mutant: the winner is not tested for after the move, the other player is
\* to move unless the board is full
ConsoleMoveOn(col, player, win) ==
    LET r == make_move(heap, board, col, player)
    IN  /\ ApplyMove(col, player)
        /\ turn' = get_next_player(player)
        /\ IF is_board_full(r.heap[r.ref])
           THEN said' = "draw" /\ loop_pc' = "over"
           ELSE said' = "board" /\ loop_pc' = "turn"

\* the move of player, then the tests that follow it in the loop: a win of
\* player ends the game; otherwise the other player is to move, and a full
\* board ends the game (main.py lines 282-289, 299-312)
ConsoleMove(col, player, win) ==
    LET r == make_move(heap, board, col, player)
    IN  /\ ApplyMove(col, player)
        /\ IF check_winner(r.heap[r.ref], player)
           THEN /\ said' = win
                /\ loop_pc' = "over"
                /\ turn' = turn
           ELSE /\ turn' = get_next_player(player)
                /\ IF is_board_full(r.heap[r.ref])
                   THEN said' = "draw" /\ loop_pc' = "over"
                   ELSE said' = "board" /\ loop_pc' = "turn"

\* a pass of the loop with the human to move (main.py lines 266-289)
ConsoleHuman ==
    /\ ui = "console"
    /\ loop_pc = "turn"
    /\ turn = human_player
    /\ LET moves == get_valid_moves(Grid(board))
       IN  /\ valid_moves' = moves
           /\ IF moves = << >>
              THEN /\ said' = "draw"
                   /\ loop_pc' = "over"
                   /\ UNCHANGED << heap, board, turn, ply, free, last, call,
                                   policy_vars, typed >>
              ELSE \E input \in ConsoleInputs :
                      LET move_str == input[1]
                          move == move_str.value - 1
                      IN  /\ typed' = IF input[2] THEN typed + 1 ELSE typed
                          /\ free' = IF input[2] THEN free ELSE free + 1
                          /\ IF ~move_str.numeric
                             THEN /\ said' = "invalid input"
                                  /\ UNCHANGED << heap, board, turn, ply, last,
                                                  call, policy_vars, loop_pc >>
                             ELSE IF move \notin Range(moves)
                             THEN /\ said' = "invalid move"
                                  /\ UNCHANGED << heap, board, turn, ply, last,
                                                  call, policy_vars, loop_pc >>
                             ELSE ConsoleMove(move, human_player, "human wins")
    /\ UNCHANGED << script, search_vars, ui, human_player >>
    /\ UNCHANGED rng

\* mutant: valid_moves is not computed again, the test is made on what the
\* pass before left in it
ConsoleAiTurnStale ==
    /\ ui = "console"
    /\ loop_pc = "turn"
    /\ turn # human_player
    /\ valid_moves' = valid_moves
    /\ IF valid_moves = << >>
       THEN /\ said' = "draw"
            /\ loop_pc' = "over"
            /\ UNCHANGED << heap, call, ai, search_vars >>
       ELSE /\ EnterAiMove("main", << ai_player >>)
            /\ loop_pc' = "ai"
            /\ said' = said
            /\ heap' = Collect(heap, {board})
            /\ call' = NoCall
    /\ UNCHANGED << script, board, turn, ply, free, last, tactic >>
    /\ UNCHANGED << ui, human_player, typed >>
    /\ UNCHANGED rng

\* a pass of the loop with the AI to move, up to the return of ai_move or
\* its call of mcts (main.py lines 291-298)
ConsoleAiTurn ==
    /\ ui = "console"
    /\ loop_pc = "turn"
    /\ turn # human_player
    /\ LET moves == get_valid_moves(Grid(board))
       IN  /\ valid_moves' = moves
           /\ IF moves = << >>
              THEN /\ said' = "draw"
                   /\ loop_pc' = "over"
                   /\ UNCHANGED << heap, call, ai, search_vars >>
              ELSE /\ EnterAiMove("main", << ai_player >>)
                   /\ loop_pc' = "ai"
                   /\ said' = said
                   /\ heap' = Collect(heap, {board})
                   /\ call' = NoCall
    /\ UNCHANGED << script, board, turn, ply, free, last, tactic >>
    /\ UNCHANGED << ui, human_player, typed >>
    /\ UNCHANGED rng

\* the rest of that pass, from the return of ai_move (main.py lines
\* 298-312); an exception of ai_move ends the program
ConsoleAiMoved ==
    /\ ui = "console"
    /\ loop_pc = "ai"
    /\ ai.pc = "done"
    /\ IF ai.outcome.kind # "returned"
       THEN /\ loop_pc' = "crashed"
            /\ said' = ai.outcome.kind
            /\ UNCHANGED << heap, board, turn, ply, last, call, policy_vars,
                            search_vars >>
       ELSE /\ ConsoleMove(ai.outcome.col, ai_player, "ai wins")
            /\ ResetSearch
    /\ UNCHANGED << script, free, ui, human_player, valid_moves, typed >>
    /\ UNCHANGED rng

-----------------------------------------------------------------------------
(* Web turn loop: main_streamlit.py lines 58-204.  Every interaction runs  *)
(* main again on the session state; loop_pc = "over" is game_over.         *)

\* main_streamlit.py lines 78-93: Start Game
WebStart ==
    /\ ui = "web"
    /\ loop_pc = "start"
    /\ \E choice \in {"Yes", "No"} :
          human_player' = IF choice = "Yes" THEN "R" ELSE "Y"
    /\ turn' = "R"
    /\ loop_pc' = "turn"
    /\ said' = "board"
    /\ UNCHANGED << heap, script, board, ply, free, last, call >>
    /\ UNCHANGED << search_vars, policy_vars, ui, valid_moves, typed >>
    /\ UNCHANGED rng

\* main_streamlit.py lines 123-146: what a run finds before the turn
WebEdge ==
    IF is_board_full(Grid(board)) THEN "draw"
    ELSE IF check_winner(Grid(board), "R")
         THEN (IF human_player = "R" THEN "human wins" ELSE "ai wins")
    ELSE IF check_winner(Grid(board), "Y")
         THEN (IF human_player = "Y" THEN "human wins" ELSE "ai wins")
    ELSE "play"

\* the move of player and the tests that follow it (main_streamlit.py
\* lines 170-180 and 194-204)
WebMove(col, player, win) ==
    LET r == make_move(heap, board, col, player)
    IN  /\ ApplyMove(col, player)
        /\ IF check_winner(r.heap[r.ref], player)
           THEN said' = win /\ loop_pc' = "over" /\ turn' = turn
           ELSE IF is_board_full(r.heap[r.ref])
           THEN said' = "draw" /\ loop_pc' = "over" /\ turn' = turn
           ELSE said' = "board" /\ loop_pc' = "turn"
                    /\ turn' = get_next_player(player)

\* a run with the human to move and Make Move pressed
WebHuman ==
    /\ ui = "web"
    /\ loop_pc = "turn"
    /\ turn = human_player
    /\ IF WebEdge # "play"
       THEN /\ said' = WebEdge
            /\ loop_pc' = "over"
            /\ UNCHANGED << heap, board, turn, ply, last, call, policy_vars,
                            valid_moves >>
       ELSE LET moves == get_valid_moves(Grid(board))
            IN  /\ valid_moves' = moves
                /\ \E chosen_col \in 1 .. COLS :
                      LET col_index == chosen_col - 1
                      IN  IF col_index \in Range(moves)
                          THEN WebMove(col_index, human_player, "human wins")
                          ELSE UNCHANGED << heap, board, turn, ply, last, call,
                                            policy_vars, said, loop_pc >>
    /\ UNCHANGED << script, free, search_vars, ui, human_player, typed >>
    /\ UNCHANGED rng

\* a run with the AI to move, up to the return of ai_move or its call of
\* mcts (main_streamlit.py lines 181-193)
WebAiTurn ==
    /\ ui = "web"
    /\ loop_pc = "turn"
    /\ turn # human_player
    /\ IF WebEdge # "play"
       THEN /\ said' = WebEdge
            /\ loop_pc' = "over"
            /\ UNCHANGED << heap, call, ai, search_vars, valid_moves >>
       ELSE LET moves == get_valid_moves(Grid(board))
            IN  /\ valid_moves' = moves
                /\ IF moves = << >>
                   THEN /\ said' = "draw"
                        /\ loop_pc' = "over"
                        /\ UNCHANGED << heap, call, ai, search_vars >>
                   ELSE /\ EnterAiMove("mcts", << ai_player >>)
                        /\ loop_pc' = "ai"
                        /\ said' = said
                        /\ heap' = Collect(heap, {board})
                        /\ call' = NoCall
    /\ UNCHANGED << script, board, turn, ply, free, last, tactic >>
    /\ UNCHANGED << ui, human_player, typed >>
    /\ UNCHANGED rng

\* the rest of that run, from the return of ai_move (main_streamlit.py
\* lines 193-204); an exception of ai_move ends the run and leaves the
\* session state as it was
WebAiMoved ==
    /\ ui = "web"
    /\ loop_pc = "ai"
    /\ ai.pc = "done"
    /\ IF ai.outcome.kind # "returned"
       THEN /\ loop_pc' = "turn"
            /\ said' = ai.outcome.kind
            /\ UNCHANGED << heap, board, turn, ply, last, call, policy_vars,
                            search_vars >>
       ELSE /\ WebMove(ai.outcome.col, ai_player, "ai wins")
            /\ ResetSearch
    /\ UNCHANGED << script, free, ui, human_player, valid_moves, typed >>
    /\ UNCHANGED rng

\* main_streamlit.py lines 68-73 and 46-56: Reset Game
WebReset ==
    /\ ui = "web"
    /\ loop_pc \in {"turn", "over"}
    /\ heap' = (1 :> EmptyBoard)
    /\ board' = 1
    /\ turn' = "R"
    /\ ply' = 0
    /\ last' = NoMove
    /\ call' = NoCall
    /\ tactic' = NoTactic
    /\ ai' = AiIdle
    /\ human_player' = None
    /\ loop_pc' = "start"
    /\ valid_moves' = << >>
    /\ said' = "none"
    /\ UNCHANGED << script, free, search_vars, ui, typed >>
    /\ UNCHANGED rng

\* either turn loop, started on the empty board
InitLoops ==
    /\ script \in Range(HumanTapes)
    /\ InitGame
    /\ \E which \in {"console", "web"} : LoopInit(which)
    /\ rng = NoRng

NextLoops ==
    \/ ConsoleStart
    \/ ConsoleHuman
    \/ ConsoleAiTurn
    \/ ConsoleAiMoved
    \/ WebStart
    \/ WebHuman
    \/ WebAiTurn
    \/ WebAiMoved
    \/ WebReset
    \/ Select
    \/ Expand
    \/ SimStart
    \/ SimStep
    \/ SimDraw
    \/ Backprop
    \/ Finish
    \/ AiReturn

SpecLoops == InitLoops /\ [][NextLoops]_vars

-----------------------------------------------------------------------------
\* the node and its ancestors, up to the root
RECURSIVE Chain(_, _)
Chain(t, n) == IF n = 0 THEN {} ELSE {n} \cup Chain(t, t[n].parent)

Nodes == 1 .. Len(tree)
RootMoves == get_valid_moves(Grid(root_board))

\* C5: boards are never mutated in place.  In every step of a search the
\* caller's root board and the board of every node stay the same object
\* with the same cells, and the board of a new node is a new object.  A
\* second make_move with the arguments that produced a node's board returns
\* an equal board that is a new object, and changes no existing board.
C5_BoardsNotMutated ==
    [][pc # "idle" =>
          /\ root_board' = root_board
          /\ root_board \in DOMAIN heap'
          /\ heap'[root_board] = heap[root_board]
          /\ \A n \in Nodes :
                /\ tree'[n].board = tree[n].board
                /\ tree[n].board \in DOMAIN heap'
                /\ heap'[tree[n].board] = heap[tree[n].board]
          /\ \A n \in (1 .. Len(tree')) \ Nodes : tree'[n].board \notin DOMAIN heap
          /\ \A n \in Nodes \ {1} :
                LET r == make_move(heap, tree[tree[n].parent].board, move_of[n],
                                   tree[tree[n].parent].current_player)
                IN  /\ r.ref \notin DOMAIN heap
                    /\ r.heap[r.ref] = heap[tree[n].board]
                    /\ \A ref \in DOMAIN heap : r.heap[ref] = heap[ref]]_vars

\* a rollout has placed two pieces from the board of a grandchild of the root
C5_Witness ==
    /\ pc = "backprop"
    /\ rollout.placed >= 2
    /\ tree[node].parent > 1

\* C6 as stated: on a root board with a legal column the search returns a
\* legal column and raises nothing, whenever the time runs out; with no
\* children it returns a random legal column.
C6_ReturnsLegalColumn ==
    (pc = "done" /\ RootMoves # << >>) =>
        /\ result.kind = "returned"
        /\ result.col \in Range(RootMoves)
        /\ tree[1].children = << >> => result.via = "no_children"

\* the first root child with the greatest visits
FirstMostVisited ==
    CHOOSE i \in 1 .. Len(tree[1].children) :
        /\ \A j \in 1 .. Len(tree[1].children) :
              tree[tree[1].children[j]].visits <= tree[tree[1].children[i]].visits
        /\ \A j \in 1 .. (i - 1) :
              tree[tree[1].children[j]].visits < tree[tree[1].children[i]].visits

\* C7: when the root has children at loop exit, mcts returns the column
\* expand_node popped for the first root child with the greatest visits;
\* exactly one legal column gives that child's board, so the return after
\* the mapping loop is not reached.
C7_MostVisitedChild ==
    (pc = "done" /\ tree[1].children # << >>) =>
        LET best == tree[1].children[FirstMostVisited]
        IN  /\ result = Returned(move_of[best], "mapped")
            /\ Cardinality(leading_to(best)) = 1
            /\ Dropped(Grid(root_board), Grid(tree[best].board), move_of[best],
                       current_player)

\* the search returned with two root children sharing the greatest visits
C7_Witness ==
    /\ pc = "done"
    /\ Len(tree[1].children) >= 2
    /\ \E i, j \in 1 .. Len(tree[1].children) :
          /\ i < j
          /\ i = FirstMostVisited
          /\ tree[tree[1].children[j]].visits = tree[tree[1].children[i]].visits

\* C8 as stated: the completed passes of the loop never exceed the
\* iteration cap simulations.
C8_IterationCap == pc # "idle" => iterations <= simulations

\* C9: backpropagate(node, outcome) adds 1 to visits on node and each of its
\* ancestors up to the root, and on no other node; on each of these it adds
\* 1 to wins exactly when outcome is get_next_player(current_player) of that
\* node; it changes nothing else, and a draw changes no wins.
C9_Backpropagate ==
    (pc = "loop" /\ before.node # 0) =>
        LET old == before.tree
            chain == Chain(old, before.node)
        IN  /\ 1 \in chain
            /\ Len(tree) = Len(old)
            /\ \A n \in Nodes :
                  /\ tree[n].visits = old[n].visits + (IF n \in chain THEN 1 ELSE 0)
                  /\ tree[n].wins = old[n].wins +
                        (IF n \in chain /\ before.winner = get_next_player(old[n].current_player)
                         THEN 1 ELSE 0)
                  /\ before.winner = None => tree[n].wins = old[n].wins
                  /\ tree[n] = [old[n] EXCEPT !.visits = tree[n].visits,
                                              !.wins = tree[n].wins]

\* a win was backpropagated from a grandchild of the root, past a node off
\* the path
C9_Witness ==
    /\ pc = "loop"
    /\ before.node # 0
    /\ before.winner \in Players
    /\ before.tree[before.node].parent > 1
    /\ Nodes \ Chain(before.tree, before.node) # {}

\* C10: simulate_game returns a player only if that player placed the last
\* rollout piece and has a four on the final rollout board; it returns None
\* only when the final rollout board has no legal column.
C10_RolloutOutcome ==
    pc = "backprop" =>
        /\ winner \in Players \cup {None}
        /\ winner \in Players =>
              /\ rollout.placed >= 1
              /\ rollout.last = winner
              /\ HasFour(rollout.final, winner)
        /\ winner = None => \A col \in ColIdx : rollout.final[0][col] # "."

\* a rollout ended in a win with its third piece
C10_Witness ==
    /\ pc = "backprop"
    /\ winner \in Players
    /\ rollout.placed >= 3

-----------------------------------------------------------------------------
\* C11: simulate_game terminates.  Every pass of its loop that makes a move
\* fills one empty cell of the rollout board, so the pieces placed never
\* exceed the empty cells of the board the rollout started from (at most
\* ROWS * COLS = 42), and every rollout that has started returns.
C11_RolloutTerminates ==
    /\ [](pc \in {"rollout", "backprop"} =>
             /\ rollout.placed + Empties(rollout.final) = Empties(rollout.start)
             /\ rollout.placed <= Empties(rollout.start)
             /\ Empties(rollout.start) <= ROWS * COLS)
    /\ (pc = "rollout" ~> pc = "backprop")

\* a rollout from a node with Yellow to move has ended after filling every
\* empty cell of its board
C11_Witness ==
    /\ pc = "backprop"
    /\ rollout.placed = Empties(rollout.start)
    /\ rollout.placed >= MaxEmpty - 2
    /\ tree[node].current_player = "Y"

-----------------------------------------------------------------------------
\* grid with player's piece in the lowest empty cell of col
Place(grid, col, player) == [grid EXCEPT ![LowestEmpty(grid, col)][col] = player]

\* the legal columns whose application for player leaves player with a four
WinningCols(grid, player) ==
    {col \in ColIdx : grid[0][col] = "." /\ HasFour(Place(grid, col, player), player)}

Min(S) == CHOOSE x \in S : \A y \in S : x <= y

\* C14: find_immediate_win_or_block(board, player) returns the lowest legal
\* column that gives player a four if there is one; otherwise the lowest
\* legal column that gives the opponent a four if there is one; otherwise
\* None.  An own win comes before a block.
C14_TacticalCheck ==
    tactic.player # None =>
        LET own == WinningCols(Grid(board), tactic.player)
            block == WinningCols(Grid(board), get_next_player(tactic.player))
        IN  tactic.col = IF own # {} THEN Min(own)
                         ELSE IF block # {} THEN Min(block)
                         ELSE NoCol

\* on a board where nobody has a four yet, the check returned a winning
\* column although a column further left would have blocked the opponent
C14_Witness ==
    /\ tactic.player # None
    /\ \A player \in Players : ~HasFour(Grid(board), player)
    /\ WinningCols(Grid(board), tactic.player) # {}
    /\ WinningCols(Grid(board), get_next_player(tactic.player)) # {}
    /\ Min(WinningCols(Grid(board), get_next_player(tactic.player))) < tactic.col

-----------------------------------------------------------------------------
\* the thresholds of the random move, in hundredths, for difficulty 1..4
Threshold == << 20, 15, 10, 5 >>

LegalCols(grid) == {col \in ColIdx : grid[0][col] = "."}

\* a call ai_move(board, player, difficulty) is running or has ended
AiCalled == ai.pc # "idle" /\ ai.impl = "mcts" /\ Len(ai.args) = 2

\* C12: ai_move(board, player, d) with d in 1..4 and a draw below the
\* threshold of d (0.20, 0.15, 0.10, 0.05) returns a legal column, chosen at
\* random, and runs neither the tactical check nor the search; with d = 5
\* the random branch is not taken, whatever the draw.
C12_RandomMove ==
    AiCalled =>
        LET d == ai.args[2]
        IN  /\ (d \in 1 .. 4 /\ ai.draw < Threshold[d]) =>
                  /\ ai.pc = "done"
                  /\ ai.outcome.kind = "returned"
                  /\ ai.outcome.via = "random"
                  /\ ai.outcome.col \in LegalCols(Grid(board))
                  /\ ~ai.consulted
                  /\ ~ai.searched
                  /\ pc = "idle"
                  /\ tree = << >>
            /\ d = 5 => ai.outcome.via # "random"

\* at difficulty 2 the draw 0.14 gave a random column that is not the first
\* legal one, on a board where the player had a winning column
C12_Witness ==
    /\ AiCalled
    /\ ai.args[2] = 2
    /\ ai.draw = 14
    /\ ai.outcome.via = "random"
    /\ ai.outcome.col # Min(LegalCols(Grid(board)))
    /\ WinningCols(Grid(board), ai.args[1]) # {}

-----------------------------------------------------------------------------
\* the column the tactical check is to give: the least winning column of
\* the player, else the least winning column of the opponent, else None
TacticalCol(grid, player) ==
    IF WinningCols(grid, player) # {} THEN Min(WinningCols(grid, player))
    ELSE IF WinningCols(grid, get_next_player(player)) # {}
         THEN Min(WinningCols(grid, get_next_player(player)))
         ELSE NoCol

-----------------------------------------------------------------------------
\* a turn loop has called ai_move
LoopCalled == ui # "none" /\ ai.pc # "idle"

Errors == {"TypeError", "ValueError", "IndexError"}

\* C15 as stated: on every AI turn of the console and the web loop ai_move
\* is called with the AI player and a difficulty in 1..5, returns a column
\* without an error, and the loop goes on to apply it.
C15_AiTurn ==
    /\ LoopCalled =>
          /\ Len(ai.args) = 2
          /\ ai.args[1] = ai_player
          /\ ai.args[2] \in Difficulties
          /\ ai.pc = "done" =>
                /\ ai.outcome.kind = "returned"
                /\ ai.outcome.col \in ColIdx
    /\ said \notin Errors
    /\ loop_pc # "crashed"

\* C16: in both turn loops ai_move is only called on a board with a legal
\* column, and after the loop's test of valid_moves on that same board: the
\* local valid_moves holds the legal columns of the board ai_move is given
\* and is not empty.
C16_CheckedBeforeAiMove ==
    LoopCalled =>
        /\ LegalCols(Grid(board)) # {}
        /\ valid_moves # << >>
        /\ Range(valid_moves) = LegalCols(Grid(board))
        /\ ~is_board_full(Grid(board))

\* the console loop has called ai_move on a board with one legal column
\* left, after the human filled another
C16_Witness ==
    /\ ui = "console"
    /\ loop_pc = "ai"
    /\ Cardinality(LegalCols(Grid(board))) = 1
    /\ last.player = human_player
    /\ last.before[1][last.col] # "."

-----------------------------------------------------------------------------
\* C17 as stated: the search ends in an error, and returns no column,
\* exactly when its root board has no legal column.
C17_ErrorOnlyWithoutMoves ==
    pc = "done" =>
        /\ RootMoves = << >> => (result.kind \in Errors /\ result.col = NoCol)
        /\ result.kind \in Errors => RootMoves = << >>

\* C18 as stated: a second run of the search on the same board, for the
\* same player and with the same arguments, that made the same random draws
\* as the first run returns what the first run returned.
C18_SameSeedSameColumn ==
    (rng.on /\ rng.run = 2 /\ pc = "done" /\ rng.same) => result = rng.first

\* two runs that also made the same number of passes of the loop agree
SamePassesSameColumn ==
    (rng.on /\ rng.run = 2 /\ pc = "done" /\ rng.same
        /\ rng.passes = iterations) => result = rng.first

\* the board with its columns in the opposite order: column c of the
\* mirrored board is column COLS - 1 - c of the board
mirror(grid) ==
    [row \in RowIdx |-> [col \in ColIdx |-> grid[row][COLS - 1 - col]]]

\* C19: check_winner gives the same answer on a board and on the board
\* with its columns mirrored, for every player.
C19_MirrorInvariant ==
    \A player \in Players :
        check_winner(mirror(Grid(board)), player)
            = check_winner(Grid(board), player)

\* the move just made won with a four up the diagonal from the bottom left
\* corner, which the mirror turns into a four down to the bottom right
\* corner, on a board that is not its own mirror image
C19_Witness ==
    /\ last.col >= 0
    /\ last.won
    /\ check_winner(mirror(Grid(board)), last.player)
    /\ FourAt(Grid(board), last.player, ROWS - 1, 0, << 0 - 1, 1 >>)
    /\ ~FourAt(Grid(board), last.player, ROWS - 4, COLS - 4, << 1, 1 >>)
    /\ mirror(Grid(board)) # Grid(board)

\* the columns that produced the children of node n
child_columns(n) ==
    {move_of[tree[n].children[k]] : k \in 1 .. Len(tree[n].children)}

\* the columns of a list
columns(moves) == {moves[k] : k \in 1 .. Len(moves)}

\* node n of the tree: its children came from distinct columns, none of
\* them still untried, the two together are the legal columns of its board,
\* and each child holds the board of the move on its column
well_formed(n) ==
    /\ Cardinality(child_columns(n)) = Len(tree[n].children)
    /\ Cardinality(columns(tree[n].untried_moves)) = Len(tree[n].untried_moves)
    /\ child_columns(n) \cap columns(tree[n].untried_moves) = {}
    /\ child_columns(n) \cup columns(tree[n].untried_moves)
          = columns(get_valid_moves(Grid(tree[n].board)))
    /\ \A k \in 1 .. Len(tree[n].children) :
          LET c == tree[n].children[k]
          IN  /\ Grid(tree[c].board)
                    = drop_piece(Grid(tree[n].board), move_of[c],
                                 tree[n].current_player)
              /\ tree[c].current_player
                    = get_next_player(tree[n].current_player)
              /\ tree[c].parent = n

\* a step of expand_node on the node selected: one untried column less, one
\* child more, the last node of the tree, and no other node touched
expanded ==
    (pc = "expand" /\ tree[node].untried_moves # << >>) =>
        /\ Len(tree') = Len(tree) + 1
        /\ node' = Len(tree')
        /\ columns(tree'[node].untried_moves)
              \subseteq columns(tree[node].untried_moves)
        /\ Len(tree'[node].untried_moves) = Len(tree[node].untried_moves) - 1
        /\ tree'[node].children = Append(tree[node].children, node')
        /\ ~(move_of'[node'] \in columns(tree'[node].untried_moves))
        /\ heap'[tree'[node'].board]
              = drop_piece(Grid(tree[node].board), move_of'[node'],
                           tree[node].current_player)
        /\ tree'[node'].board \notin DOMAIN heap
        /\ tree'[node'].current_player
              = get_next_player(tree[node].current_player)
        /\ tree'[node'].parent = node
        /\ tree'[node'].children = << >>
        /\ \A n \in 1 .. Len(tree) : n # node => tree'[n] = tree[n]

\* C20: at every point of a search every node of the tree is well formed,
\* so no column is expanded twice, and each expand_node takes one untried
\* column away and appends one child: the board of the move on that column
\* by the node's player, for the other player, with the node as parent.
C20_TreeStructure ==
    /\ [](pc # "idle" => \A n \in 1 .. Len(tree) : well_formed(n))
    /\ [][expanded]_vars

\* a node below the root has a child and an untried column left, under a
\* root with two or more children and no untried column
C20_Witness ==
    /\ pc = "simulate"
    /\ Len(tree[1].children) >= 2
    /\ tree[1].untried_moves = << >>
    /\ \E n \in 2 .. Len(tree) :
          /\ tree[n].children # << >>
          /\ tree[n].untried_moves # << >>
          /\ well_formed(n)

-----------------------------------------------------------------------------
\* the pairs << parent, child >> whose uct_value the selection loop of mcts
\* computes when it runs on tree t from node n: best_child computes it for
\* every child of each node the loop passes
RECURSIVE evaluated(_, _)
evaluated(t, n) ==
    IF t[n].untried_moves = << >> /\ t[n].children # << >>
    THEN {<< n, t[n].children[k] >> : k \in 1 .. Len(t[n].children)}
            \cup evaluated(t, best_child(t, n))
    ELSE {}

\* C21: every child whose uct_value the selection loop of a pass computes
\* has one visit or more, and so has its parent: the logarithm is defined
\* and the value is never the infinity of an unvisited child.
C21_UctDefined ==
    pc = "loop" =>
        \A e \in evaluated(tree, 1) :
            /\ tree[e[2]].parent = e[1]
            /\ tree[e[1]].visits >= 1
            /\ tree[e[2]].visits >= 1
            /\ uct_value(tree, e[2]) < Inf

\* the selection loop has gone down two levels, past the children of the
\* root and those of one of them
C21_Witness ==
    /\ pc = "expand"
    /\ tree[node].parent > 1
    /\ Cardinality(evaluated(tree, 1)) >= 3
    /\ \A e \in evaluated(tree, 1) : tree[e[2]].visits >= 1

-----------------------------------------------------------------------------
\* a step of a running search: the counters of every node stay or grow by
\* one, they change only as a pass of the loop ends, and a node the step
\* appends has none
counted ==
    (pc \notin {"idle", "done"}) =>
        /\ Len(tree') >= Len(tree)
        /\ \A n \in 1 .. Len(tree) :
              /\ (tree'[n].visits - tree[n].visits) \in {0, 1}
              /\ (tree'[n].wins - tree[n].wins) \in {0, 1}
              /\ (tree'[n].visits # tree[n].visits \/ tree'[n].wins # tree[n].wins)
                    => iterations' = iterations + 1
        /\ \A n \in (Len(tree) + 1) .. Len(tree') :
              tree'[n].visits = 0 /\ tree'[n].wins = 0

\* C22: in every state of a search 0 <= wins <= visits holds for every
\* node; a node starts with wins = 0 and visits = 0, and a pass of the loop
\* leaves each counter as it is or adds one to it.
C22_Counters ==
    /\ [](\A n \in 1 .. Len(tree) :
             /\ 0 <= tree[n].wins
             /\ tree[n].wins <= tree[n].visits
             /\ tree[n].visits <= iterations)
    /\ [][counted]_vars

\* after a pass one node has won each of its two or more visits and another
\* none of its two or more
C22_Witness ==
    /\ pc = "loop"
    /\ before.node # 0
    /\ \E n, m \in 1 .. Len(tree) :
          /\ tree[n].visits >= 2
          /\ tree[n].wins = tree[n].visits
          /\ tree[m].visits >= 2
          /\ tree[m].wins = 0

-----------------------------------------------------------------------------
\* the visits of the children of node n from the k-th on, added up
RECURSIVE child_visits_from(_, _)
child_visits_from(n, k) ==
    IF k > Len(tree[n].children) THEN 0
    ELSE tree[tree[n].children[k]].visits + child_visits_from(n, k + 1)

child_visits(n) == child_visits_from(n, 1)

\* C23: between the passes of a search, after iterations of them, the root
\* has iterations visits and the tree at most iterations + 1 nodes; a root
\* with a legal column has the visits of its children together, and every
\* other node with a legal column has one visit more than its children
\* together.
C23_VisitAccounting ==
    pc \in {"loop", "done"} =>
        /\ tree[1].visits = iterations
        /\ Len(tree) <= iterations + 1
        /\ get_valid_moves(Grid(tree[1].board)) # << >>
              => tree[1].visits = child_visits(1)
        /\ \A n \in 2 .. Len(tree) :
              get_valid_moves(Grid(tree[n].board)) # << >>
                  => tree[n].visits = 1 + child_visits(n)

\* four passes or more are over, one of them added no node, and a node
\* below the root has a child
C23_Witness ==
    /\ pc = "loop"
    /\ iterations >= 4
    /\ Len(tree) < iterations + 1
    /\ get_valid_moves(Grid(tree[1].board)) # << >>
    /\ tree[1].visits = child_visits(1)
    /\ \E n \in 2 .. Len(tree) :
          tree[n].children # << >> /\ tree[n].visits = 1 + child_visits(n)

-----------------------------------------------------------------------------
\* the players with a four on the board of node n
holders(n) == {p \in Players : check_winner(Grid(tree[n].board), p)}

\* C24 as stated: a node whose board holds a four has no child, and a
\* rollout from it places no piece and ends with the holder of the four as
\* its outcome.
C24_TerminalNodes ==
    /\ \A n \in 1 .. Len(tree) : holders(n) # {} => tree[n].children = << >>
    /\ (pc = "backprop" /\ holders(node) # {}) =>
          /\ rollout.placed = 0
          /\ winner \in holders(node)

-----------------------------------------------------------------------------
\* the pieces of player on the grid
count(grid, player) ==
    Cardinality({rc \in RowIdx \X ColIdx : grid[rc[1]][rc[2]] = player})

\* the player of the move after n moves: Red, then in turns
mover(n) == IF n % 2 = 0 THEN "R" ELSE "Y"

\* a state of a console game
console_state ==
    LET grid == Grid(board)
    IN  /\ (count(grid, "R") - count(grid, "Y")) \in {0, 1}
        /\ count(grid, "R") + count(grid, "Y") = ply
        /\ ply <= ROWS * COLS
        /\ Cardinality({p \in Players : check_winner(grid, p)}) <= 1
        /\ loop_pc \in {"turn", "ai"} =>
              /\ turn = mover(ply)
              /\ \A p \in Players : ~check_winner(grid, p)
              /\ ~is_board_full(grid)
        /\ loop_pc = "ai" => turn = ai_player
        /\ ply = ROWS * COLS => loop_pc = "over"
        /\ loop_pc = "over" =>
              /\ said \in {"human wins", "ai wins", "draw"}
              /\ said = "human wins" <=> check_winner(grid, human_player)
              /\ said = "ai wins" <=> check_winner(grid, ai_player)
              /\ said = "draw" => is_board_full(grid)

\* a step of a console game: a rejected line of input changes neither the
\* board nor the player to move, and a step that changes the board is one
\* move on a legal column, of the player whose turn it is by the count of
\* the moves, made while the game is on and no player has a four
console_step ==
    /\ said' \in {"invalid input", "invalid move"} =>
          /\ board' = board
          /\ heap'[board'] = Grid(board)
          /\ turn' = turn
          /\ ply' = ply
          /\ loop_pc' = loop_pc
    /\ (board' # board \/ heap'[board'] # Grid(board) \/ ply' # ply) =>
          /\ loop_pc \in {"turn", "ai"}
          /\ \A p \in Players : ~check_winner(Grid(board), p)
          /\ ply' = ply + 1
          /\ last'.player = mover(ply)
          /\ last'.player = turn
          /\ last'.col \in LegalCols(Grid(board))
          /\ Dropped(Grid(board), heap'[board'], last'.col, last'.player)
          /\ loop_pc' = "turn" => turn' = get_next_player(turn)

\* C25: in the console loop Red moves first and the players take turns, a
\* line of input that is no legal column changes neither the board nor the
\* player to move, and no move is made after a win: Red has as many pieces
\* as Yellow or one more, at most one player has a four, and with the 42nd
\* move at the latest the game is over, by a win or a draw.
C25_ConsoleGame ==
    /\ [](ui = "console" /\ loop_pc # "start" => console_state)
    /\ [][ui = "console" /\ loop_pc # "start" => console_step]_vars

\* a game the AI began is over with a win of the human, who had typed a
\* line that was rejected
C25_Witness ==
    /\ ui = "console"
    /\ loop_pc = "over"
    /\ human_player = "Y"
    /\ said = "human wins"
    /\ free >= 1
    /\ ply >= 8
    /\ console_state

=============================================================================
